---- MODULE Spec2Model ----
(***************************************************************************)
(* Model of script/patch_memory_usage.py: the byte scanner                 *)
(* (find_memory_references_in_bytes), the mask renderer                    *)
(* (create_patched_bytes_string) and the batch loop of main().             *)
(*                                                                         *)
(* Strings are sequences of one-character strings, so that formatting is   *)
(* modelled digit by digit.  Python integers are unbounded; an unsigned    *)
(* 32-bit value read from four bytes is kept as two 16-bit limbs           *)
(* [hi, lo] (value = hi * 65536 + lo) because it may exceed 2^31 - 1.      *)
(***************************************************************************)
EXTENDS Integers, Sequences, FiniteSets, TLC

\* ------------------------------------------------------------------ bounds
MaxLen == 6          \* longest byte string handed to the scanner in ScanSpec
MaxAddrs == 2        \* longest candidate list in Spec
BytesToRead == 6     \* --bytes-to-read value used in Spec

\* --------------------------------------------------------------- constants
DefaultImageBase == 4194304      \* 0x400000
DefaultMemoryBase == 30359652    \* 0x01CF4064
DefaultMaxRange == 65536         \* 0x10000

\* Byte values the inputs are built from.
ByteAlphabet == {1, 64, 100, 207}          \* 01 40 64 CF

\* (memory_base, max_offset_range) pairs the scanner is run with.
ScanConfigs ==
  { [memory_base |-> DefaultMemoryBase, max_range |-> DefaultMaxRange],
    [memory_base |-> 16843009, max_range |-> 0],          \* 0x01010101
    [memory_base |-> 1, max_range |-> 1073741824] }       \* range 0x40000000

\* ------------------------------------------------------------ wide integers
Limb == 65536

\* A Python int n (|n| < 2^31) as limbs.
Wide(n) == [hi |-> n \div Limb, lo |-> n % Limb]

\* a - b on limbs, normalised so that 0 <= lo < Limb.
WideSub(a, b) ==
  LET dl == a.lo - b.lo
  IN  [hi |-> a.hi - b.hi + (dl \div Limb), lo |-> dl % Limb]

\* abs(a)
WideAbs(a) == IF a.hi < 0 THEN WideSub(Wide(0), a) ELSE a

\* a <= b
WideLeq(a, b) == a.hi < b.hi \/ (a.hi = b.hi /\ a.lo <= b.lo)

\* The plain integer a limb pair stands for (used only where it fits).
WideInt(a) == a.hi * Limb + a.lo

\* ------------------------------------------------------------- formatting
HexDigits == <<"0","1","2","3","4","5","6","7","8","9","A","B","C","D","E","F">>

\* format(n, "X") for n >= 0: upper-case hex without padding.
RECURSIVE FormatX(_)
FormatX(n) ==
  IF n < 16 THEN <<HexDigits[n + 1]>>
  ELSE FormatX(n \div 16) \o <<HexDigits[(n % 16) + 1]>>

\* Left padding with "0" up to width w (never truncates).
RECURSIVE ZeroPad(_, _)
ZeroPad(s, w) == IF Len(s) >= w THEN s ELSE ZeroPad(<<"0">> \o s, w)

\* f"{b:02X}"
Format02X(b) == ZeroPad(FormatX(b), 2)

\* ----------------------------------------------------------- byte scanner
\* instruction_bytes[i:i+4] (Python slice, 0-based i)
Slice4(instruction_bytes, i) == SubSeq(instruction_bytes, i + 1, i + 4)

\* struct.unpack('<I', addr_bytes)[0]
Unpack(addr_bytes) ==
  [lo |-> addr_bytes[1] + 256 * addr_bytes[2],
   hi |-> addr_bytes[3] + 256 * addr_bytes[4]]

\* abs(addr - memory_base) < max_range
InRangeStrict(addr, memory_base, max_range) ==
  LET d == WideAbs(WideSub(addr, Wide(memory_base)))
  IN  WideLeq(d, Wide(max_range)) /\ d # Wide(max_range)

\* abs(addr - memory_base) <= max_range
InRange(addr, memory_base, max_range) ==
  WideLeq(WideAbs(WideSub(addr, Wide(memory_base))), Wide(max_range))

\* The body of the for loop, from index i on, appending to patch_offsets.
RECURSIVE ScanFrom(_, _, _, _, _)
ScanFrom(instruction_bytes, memory_base, max_range, i, patch_offsets) ==
  IF i >= Len(instruction_bytes) - 3 THEN patch_offsets
  ELSE
    LET addr == Unpack(Slice4(instruction_bytes, i))
        found == IF InRange(addr, memory_base, max_range)
                 THEN <<[byte_offset |-> i,
                         memory_offset |-> WideInt(WideSub(addr, Wide(memory_base))),
                         original_addr |-> addr]>>
                 ELSE <<>>
    IN  ScanFrom(instruction_bytes, memory_base, max_range, i + 1,
                 patch_offsets \o found)

find_memory_references_in_bytes(instruction_bytes, memory_base, max_range) ==
  ScanFrom(instruction_bytes, memory_base, max_range, 0, <<>>)

\* ----------------------------------------------------------- mask renderer
\* hex_chars after the first loop: two characters per byte.
RECURSIVE HexChars(_)
HexChars(instruction_bytes) ==
  IF instruction_bytes = <<>> THEN <<>>
  ELSE LET s == Format02X(Head(instruction_bytes))
       IN  <<s[1], s[2]>> \o HexChars(Tail(instruction_bytes))

\* Marks 6 characters instead of 8.
MarkPatchShort(hex_chars, patch) ==
  LET start_idx == patch.byte_offset * 2
  IN  [k \in 1..Len(hex_chars) |->
         IF k - 1 >= start_idx /\ k - 1 < start_idx + 6
         THEN "X" ELSE hex_chars[k]]

\* The inner loop: for j in range(8): if start_idx + j < len: hex_chars[...] = 'X'
MarkPatch(hex_chars, patch) ==
  LET start_idx == patch.byte_offset * 2
  IN  [k \in 1..Len(hex_chars) |->
         IF k - 1 >= start_idx /\ k - 1 < start_idx + 8
         THEN "X" ELSE hex_chars[k]]

\* The outer loop over patch_offsets.
RECURSIVE MarkAll(_, _)
MarkAll(hex_chars, patch_offsets) ==
  IF patch_offsets = <<>> THEN hex_chars
  ELSE MarkAll(MarkPatch(hex_chars, Head(patch_offsets)), Tail(patch_offsets))

\* Regrouping two characters at a time (0-based i), a lone last one gets '0'.
RECURSIVE Regroup(_, _)
Regroup(hex_chars, i) ==
  IF i >= Len(hex_chars) THEN <<>>
  ELSE LET g == IF i + 1 < Len(hex_chars)
                THEN <<hex_chars[i + 1], hex_chars[i + 2]>>
                ELSE <<hex_chars[i + 1], "0">>
       IN  <<g>> \o Regroup(hex_chars, i + 2)

\* ' '.join(result)
RECURSIVE Join(_)
Join(result) ==
  IF result = <<>> THEN <<>>
  ELSE IF Len(result) = 1 THEN result[1]
  ELSE result[1] \o <<" ">> \o Join(Tail(result))

create_patched_bytes_string(instruction_bytes, patch_offsets) ==
  Join(Regroup(MarkAll(HexChars(instruction_bytes), patch_offsets), 0))

\* ------------------------------------------------------------------ state
VARIABLES
  args,                     \* parsed command line (parse_arguments)
  binary_data,              \* bytes of the binary image (load_binary)
  addresses,                \* candidate addresses (read_csv_addresses)
  i,                        \* number of candidates already taken by the for loop
  instructions,             \* dict addr_key -> {bytes, offset}
  successful_disassemblies,
  out_of_range_addresses,
  failed_disassemblies,
  code,                     \* window read for the current candidate
  insn,                     \* instruction the decoder returned last
  instruction_bytes,
  patch_offsets,
  patched_bytes,
  rate,                     \* text logged as success rate
  result,                   \* dict handed to toml.dumps
  pc,
  outcomes,                 \* history: outcome of every candidate, in order
  decoder_calls             \* history: every md.disasm call, in order

vars == <<args, binary_data, addresses, i, instructions,
          successful_disassemblies, out_of_range_addresses,
          failed_disassemblies, code, insn, instruction_bytes, patch_offsets,
          patched_bytes, rate, result, pc, outcomes, decoder_calls>>

NoInsn == [address |-> -1, size |-> 0]
NoResult == [total_instructions |-> -1, instructions |-> <<>>, built |-> FALSE]
EmptyDict == [k \in {} |-> 0]

\* ----------------------------------------------------- scanner on its own
\* All byte strings of length 0..n over ByteAlphabet.
ByteStrings(n) == UNION {[1..k -> ByteAlphabet] : k \in 0..n}

ScanInit ==
  /\ \E c \in ScanConfigs :
       args = [image_base |-> DefaultImageBase, memory_base |-> c.memory_base,
               bytes_to_read |-> BytesToRead, max_offset_range |-> c.max_range]
  /\ instruction_bytes \in ByteStrings(MaxLen)
  /\ binary_data = <<>>
  /\ addresses = <<>>
  /\ i = 0
  /\ instructions = EmptyDict
  /\ successful_disassemblies = 0
  /\ out_of_range_addresses = 0
  /\ failed_disassemblies = 0
  /\ code = <<>>
  /\ insn = NoInsn
  /\ patch_offsets = <<>>
  /\ patched_bytes = <<>>
  /\ rate = <<>>
  /\ result = NoResult
  /\ pc = "scan"
  /\ outcomes = <<>>
  /\ decoder_calls = <<>>

\* patch_offsets = find_memory_references_in_bytes(...)
Scan ==
  /\ pc = "scan"
  /\ patch_offsets' = find_memory_references_in_bytes(
                        instruction_bytes, args.memory_base, args.max_offset_range)
  /\ pc' = "mask"
  /\ UNCHANGED <<args, binary_data, addresses, i, instructions,
                 successful_disassemblies, out_of_range_addresses,
                 failed_disassemblies, code, insn, instruction_bytes,
                 patched_bytes, rate, result, outcomes, decoder_calls>>

\* patched_bytes = create_patched_bytes_string(instruction_bytes, patch_offsets)
Mask ==
  /\ pc = "mask"
  /\ patched_bytes' = create_patched_bytes_string(instruction_bytes, patch_offsets)
  /\ pc' = "masked"
  /\ UNCHANGED <<args, binary_data, addresses, i, instructions,
                 successful_disassemblies, out_of_range_addresses,
                 failed_disassemblies, code, insn, instruction_bytes,
                 patch_offsets, rate, result, outcomes, decoder_calls>>

ScanNext == Scan \/ Mask

ScanSpec == ScanInit /\ [][ScanNext]_vars

\* ------------------------------------------------------- scanner claims
\* Byte k (0-based) of the current instruction_bytes.
ByteAt(k) == instruction_bytes[k + 1]

\* |v - memory_base| <= max_offset_range for the little-endian value v that
\* starts at 0-based position k, evaluated on the split v = 256 * q + b0.
Near(k) ==
  LET q  == ByteAt(k + 1) + 256 * ByteAt(k + 2) + 65536 * ByteAt(k + 3)
      qb == args.memory_base \div 256
      r  == args.memory_base % 256
      R  == args.max_offset_range
  IN  /\ q - qb <= (R - ByteAt(k) + r) \div 256
      /\ q - qb >= 0 - ((R + ByteAt(k) - r) \div 256)

Qualifying == {k \in 0..(Len(instruction_bytes) - 4) : Near(k)}

\* The four little-endian bytes of a non-negative integer below 2^31.
LittleEndian(n) ==
  <<n % 256, (n \div 256) % 256, (n \div 65536) % 256, (n \div 16777216) % 256>>

\* C2: the scanner returns, in strictly ascending byte_offset order, exactly
\* the positions i in [0, L-4] whose little-endian 32-bit value v satisfies
\* |v - memory_base| <= max_range, each with byte_offset = i,
\* original_addr = v and memory_offset = v - memory_base; overlapping
\* matches are all kept and the result is empty when L < 4 or nothing
\* qualifies.
C2_ScannerExact ==
  pc \in {"mask", "masked"} =>
    /\ Len(patch_offsets) = Cardinality(Qualifying)
    /\ \A j \in 1..Len(patch_offsets) :
         LET m == patch_offsets[j]
         IN  /\ m.byte_offset \in Qualifying
             /\ m.original_addr.lo = ByteAt(m.byte_offset)
                                     + 256 * ByteAt(m.byte_offset + 1)
             /\ m.original_addr.hi = ByteAt(m.byte_offset + 2)
                                     + 256 * ByteAt(m.byte_offset + 3)
             /\ LittleEndian(args.memory_base + m.memory_offset)
                  = SubSeq(instruction_bytes, m.byte_offset + 1, m.byte_offset + 4)
    /\ \A j, k \in 1..Len(patch_offsets) :
         j < k => patch_offsets[j].byte_offset < patch_offsets[k].byte_offset
    /\ (Len(instruction_bytes) < 4 \/ Qualifying = {}) => patch_offsets = <<>>

\* Two overlapping matches, the second with a negative offset.
C2_Witness ==
  /\ pc = "mask"
  /\ Len(patch_offsets) = 2
  /\ patch_offsets[2].byte_offset - patch_offsets[1].byte_offset < 4
  /\ patch_offsets[1].memory_offset = 0
  /\ patch_offsets[2].memory_offset < 0

\* Byte positions covered by the 4-byte span of some match.
Covered ==
  {k \in 0..(Len(instruction_bytes) - 1) :
     \E j \in 1..Len(patch_offsets) :
        /\ patch_offsets[j].byte_offset <= k
        /\ k < patch_offsets[j].byte_offset + 4}

\* Group k (0-based) of a rendered byte string.
GroupOf(str, k) == <<str[3 * k + 1], str[3 * k + 2]>>

\* C3: for matches produced by the scanner on the same bytes, the rendered
\* string has exactly L groups separated by single spaces; group k is "XX"
\* iff k lies in the union of the 4-byte spans, otherwise it is the two-digit
\* upper-case hex of byte k; no group is half-masked and no span runs past
\* the last byte.
C3_MaskExact ==
  pc = "masked" =>
    LET L == Len(instruction_bytes)
    IN  /\ Len(patched_bytes) = IF L = 0 THEN 0 ELSE 3 * L - 1
        /\ \A k \in 1..(L - 1) : patched_bytes[3 * k] = " "
        /\ \A k \in 0..(L - 1) :
             /\ (GroupOf(patched_bytes, k) = <<"X", "X">>) <=> (k \in Covered)
             /\ k \notin Covered =>
                  GroupOf(patched_bytes, k)
                    = <<HexDigits[(ByteAt(k) \div 16) + 1],
                        HexDigits[(ByteAt(k) % 16) + 1]>>
        /\ \A j \in 1..Len(patch_offsets) :
             patch_offsets[j].byte_offset + 4 <= L

\* Overlapping spans at offsets 0 and 2 of a six-byte string: all six masked;
\* and a string with one match that leaves bytes unmasked.
C3_Witness ==
  /\ pc = "masked"
  /\ Len(instruction_bytes) = 6
  /\ Len(patch_offsets) = 2
  /\ patch_offsets[1].byte_offset = 0
  /\ patch_offsets[2].byte_offset = 2
  /\ Covered = 0..5

\* ------------------------------------------------------------ batch loop
\* Binary images the batch is run on.
Images ==
  { <<141, 134, 100, 64, 207, 1, 207, 1>>,      \* 8D 86 64 40 CF 01 CF 01
    <<99, 64, 207, 1, 100, 64, 207, 1>> }       \* 63 40 CF 01 64 40 CF 01

\* Candidate addresses: one below the image, the others at offsets 0..3.
CandidateAddrs == {DefaultImageBase + d : d \in -1..3}

\* All candidate lists of length 0..n.
AddressLists(n) == UNION {[1..k -> CandidateAddrs] : k \in 0..n}

Init ==
  /\ args = [image_base |-> DefaultImageBase, memory_base |-> DefaultMemoryBase,
             bytes_to_read |-> BytesToRead, max_offset_range |-> DefaultMaxRange]
  /\ binary_data \in Images
  /\ addresses \in AddressLists(MaxAddrs)
  /\ i = 0
  /\ instructions = EmptyDict
  /\ successful_disassemblies = 0
  /\ out_of_range_addresses = 0
  /\ failed_disassemblies = 0
  /\ code = <<>>
  /\ insn = NoInsn
  /\ instruction_bytes = <<>>
  /\ patch_offsets = <<>>
  /\ patched_bytes = <<>>
  /\ rate = <<>>
  /\ result = NoResult
  /\ pc = "loop"
  /\ outcomes = <<>>
  /\ decoder_calls = <<>>

Min(a, b) == IF a < b THEN a ELSE b
Max(a, b) == IF a > b THEN a ELSE b

\* A slice bound as Python normalises it for a sequence of length n.
SliceIndex(x, n) == IF x < 0 THEN Max(n + x, 0) ELSE Min(x, n)

\* data[a:b]
PySlice(data, a, b) ==
  SubSeq(data, SliceIndex(a, Len(data)) + 1, SliceIndex(b, Len(data)))

\* Only the upper bound is tested.
IsOutOfRangeUpperOnly(offset, bytes_to_read, length) ==
  offset + bytes_to_read > length

\* offset < 0 or offset + args.bytes_to_read > len(binary_data)
IsOutOfRange(offset, bytes_to_read, length) ==
  offset < 0 \/ offset + bytes_to_read > length

\* The whole window is kept.
InstructionBytesWholeWindow(window, size) == window

\* code[:insn.size]
InstructionBytes(window, size) == PySlice(window, 0, size)

\* The last match instead of the first.
MainOffsetLast(matches) ==
  IF matches # <<>> THEN matches[Len(matches)].memory_offset ELSE 0

\* patch_offsets[0]['memory_offset'] if patch_offsets else 0
MainOffset(matches) ==
  IF matches # <<>> THEN matches[1].memory_offset ELSE 0

\* f"0x{main_offset:X}" if main_offset >= 0 else f"-0x{abs(main_offset):X}"
FormatOffset(main_offset) ==
  IF main_offset >= 0 THEN <<"0", "x">> \o FormatX(main_offset)
  ELSE <<"-", "0", "x">> \o FormatX(0 - main_offset)

\* f"0x{insn.address:08X}"
FormatAddrKey(address) == <<"0", "x">> \o ZeroPad(FormatX(address), 8)

\* The assignment is skipped when the key is already present.
DictSetKeepFirst(dict, key, value) ==
  [k \in DOMAIN dict \cup {key} |->
     IF k \in DOMAIN dict THEN dict[k] ELSE value]

\* instructions[addr_key] = {...}
DictSet(dict, key, value) ==
  [k \in DOMAIN dict \cup {key} |-> IF k = key THEN value ELSE dict[k]]

\* Addresses the decoder may report for an instruction decoded at addr.
DecodedAddresses(addr) == {addr, addr - (addr % 2)}

\* One entry of the history: what happened to one candidate.
Outcome(kind, addr, window, decoded, matches, desc) ==
  [kind |-> kind, addr |-> addr, window |-> window, insn |-> decoded,
   matches |-> matches, desc |-> desc]

NoDesc == [bytes |-> <<>>, offset |-> <<>>]

\* The candidate the loop is at, and its file offset.
CurAddr == addresses[i + 1]
CurOffset == CurAddr - args.image_base

\* Lines 277-281: the bounds check fails.
OutOfRange ==
  /\ pc = "loop"
  /\ i < Len(addresses)
  /\ IsOutOfRange(CurOffset, args.bytes_to_read, Len(binary_data))
  /\ out_of_range_addresses' = out_of_range_addresses + 1
  /\ i' = i + 1
  /\ outcomes' = Append(outcomes, Outcome("OutOfRange", CurAddr, <<>>, NoInsn, <<>>, NoDesc))
  /\ UNCHANGED <<args, binary_data, addresses, instructions,
                 successful_disassemblies, failed_disassemblies, code, insn,
                 instruction_bytes, patch_offsets, patched_bytes, rate, result,
                 pc, decoder_calls>>

\* The window read at line 283 for the current candidate.
Window == PySlice(binary_data, CurOffset, CurOffset + args.bytes_to_read)

\* Lines 283-291: the decoder returns no instruction.
DecodeFailed ==
  /\ pc = "loop"
  /\ i < Len(addresses)
  /\ ~IsOutOfRange(CurOffset, args.bytes_to_read, Len(binary_data))
  /\ code' = Window
  /\ decoder_calls' = Append(decoder_calls, [code |-> Window, addr |-> CurAddr])
  /\ failed_disassemblies' = failed_disassemblies + 1
  /\ i' = i + 1
  /\ outcomes' = Append(outcomes, Outcome("DecodeFailed", CurAddr, Window, NoInsn, <<>>, NoDesc))
  /\ UNCHANGED <<args, binary_data, addresses, instructions,
                 successful_disassemblies, out_of_range_addresses, insn,
                 instruction_bytes, patch_offsets, patched_bytes, rate, result,
                 pc>>

\* The exception leaves the loop.
ExceptPropagates(failed) == [failed |-> failed, pc |-> "crashed"]

\* The handler counts nothing.
ExceptUncounted(failed) == [failed |-> failed, pc |-> "loop"]

\* Lines 319-321: except Exception: failed_disassemblies += 1
Except(failed) == [failed |-> failed + 1, pc |-> "loop"]

\* Lines 283-287, 319-321: the decoder raises.
DecodeError ==
  /\ pc = "loop"
  /\ i < Len(addresses)
  /\ ~IsOutOfRange(CurOffset, args.bytes_to_read, Len(binary_data))
  /\ code' = Window
  /\ decoder_calls' = Append(decoder_calls, [code |-> Window, addr |-> CurAddr])
  /\ failed_disassemblies' = Except(failed_disassemblies).failed
  /\ pc' = Except(failed_disassemblies).pc
  /\ i' = i + 1
  /\ outcomes' = Append(outcomes, Outcome("DecodeError", CurAddr, Window, NoInsn, <<>>, NoDesc))
  /\ UNCHANGED <<args, binary_data, addresses, instructions,
                 successful_disassemblies, out_of_range_addresses, insn,
                 instruction_bytes, patch_offsets, patched_bytes, rate, result>>

\* The success counter is left alone.
CountSuccessNever(n) == n

\* successful_disassemblies += 1
CountSuccess(n) == n + 1

\* Lines 283-317: the decoder returns one instruction and it is described.
Describe ==
  /\ pc = "loop"
  /\ i < Len(addresses)
  /\ ~IsOutOfRange(CurOffset, args.bytes_to_read, Len(binary_data))
  /\ \E size \in 1..Len(Window), address \in DecodedAddresses(CurAddr) :
       LET bytes   == InstructionBytes(Window, size)
           matches == find_memory_references_in_bytes(
                        bytes, args.memory_base, args.max_offset_range)
           patched == create_patched_bytes_string(bytes, matches)
           desc    == [bytes |-> patched,
                       offset |-> FormatOffset(MainOffset(matches))]
       IN  /\ insn' = [address |-> address, size |-> size]
           /\ instruction_bytes' = bytes
           /\ patch_offsets' = matches
           /\ patched_bytes' = patched
           /\ instructions' = DictSet(instructions, FormatAddrKey(address), desc)
           /\ outcomes' = Append(outcomes,
                 Outcome("Described", CurAddr, Window,
                         [address |-> address, size |-> size], matches, desc))
  /\ code' = Window
  /\ decoder_calls' = Append(decoder_calls, [code |-> Window, addr |-> CurAddr])
  /\ successful_disassemblies' = CountSuccess(successful_disassemblies)
  /\ i' = i + 1
  /\ UNCHANGED <<args, binary_data, addresses, out_of_range_addresses,
                 failed_disassemblies, rate, result, pc>>

\* Decimal digits of n >= 0.
RECURSIVE FormatD(_)
FormatD(n) ==
  IF n < 10 THEN <<HexDigits[n + 1]>>
  ELSE FormatD(n \div 10) \o <<HexDigits[(n % 10) + 1]>>

\* f"{x:.2f}%" for x = successful / total * 100, from the value rounded to
\* hundredths (no total below 32 produces a tie).
FormatPercent(successful, total) ==
  LET h == (2 * successful * 10000 + total) \div (2 * total)
  IN  FormatD(h \div 100) \o <<".">> \o ZeroPad(FormatD(h % 100), 2) \o <<"%">>

ZeroDivisionError == <<"ZeroDivisionError">>

\* The percentage is computed whatever the list.
SuccessRateUnguarded(successful, total) ==
  IF total = 0 THEN ZeroDivisionError ELSE FormatPercent(successful, total)

\* Line 329: f"...{(successful / len(addresses) * 100):.2f}%" if addresses else "N/A"
SuccessRate(successful, total) ==
  IF total # 0 THEN FormatPercent(successful, total) ELSE <<"N", "/", "A">>

\* Lines 323-342: the loop is over; statistics are logged, the result is built.
Finish ==
  /\ pc = "loop"
  /\ i = Len(addresses)
  /\ LET r == SuccessRate(successful_disassemblies, Len(addresses))
     IN  IF r = ZeroDivisionError
         THEN /\ pc' = "crashed"
              /\ UNCHANGED <<rate, result>>
         ELSE /\ pc' = "done"
              /\ rate' = r
              /\ result' = [total_instructions |-> successful_disassemblies,
                            instructions |-> instructions,
                            built |-> TRUE]
  /\ UNCHANGED <<args, binary_data, addresses, i, instructions,
                 successful_disassemblies, out_of_range_addresses,
                 failed_disassemblies, code, insn, instruction_bytes,
                 patch_offsets, patched_bytes, outcomes, decoder_calls>>

Next == OutOfRange \/ DecodeFailed \/ DecodeError \/ Describe \/ Finish

Spec == Init /\ [][Next]_vars

\* The loop is sequential code: whenever a step is possible it is taken.
FairSpec == Init /\ [][Next]_vars /\ WF_vars(Next)

\* ------------------------------------------------------ batch-loop claims
\* Positions of the history with a given outcome.
OfKind(kind) == {k \in 1..Len(outcomes) : outcomes[k].kind = kind}
Described == OfKind("Described")

UpperHex == {HexDigits[d] : d \in 1..16}

\* Value of one upper-case hex digit, and of a string of them.
DigitValue(c) == (CHOOSE d \in 1..16 : HexDigits[d] = c) - 1
RECURSIVE ParseHex(_)
ParseHex(str) ==
  IF str = <<>> THEN 0
  ELSE 16 * ParseHex(SubSeq(str, 1, Len(str) - 1)) + DigitValue(str[Len(str)])

\* Two-digit upper-case hex of a byte.
HexOfByte(b) == <<HexDigits[(b \div 16) + 1], HexDigits[(b % 16) + 1]>>

\* C1: every Described candidate's descriptor is computed from the first
\* insn.size bytes of the window only (1 <= insn.size <= bytes_to_read): the
\* 'bytes' field has exactly insn.size groups, each rendering or masking the
\* window byte of the same index, and every match lies wholly inside the
\* instruction, so a value reaching beyond its end produces no match.
C1_TruncatedToInstruction ==
  \A k \in Described :
    LET o == outcomes[k]
        n == o.insn.size
    IN  /\ n \in 1..args.bytes_to_read
        /\ Len(o.desc.bytes) = 3 * n - 1
        /\ \A g \in 0..(n - 1) :
             GroupOf(o.desc.bytes, g) \in {<<"X", "X">>, HexOfByte(o.window[g + 1])}
        /\ \A j \in 1..Len(o.matches) :
             /\ o.matches[j].byte_offset >= 0
             /\ o.matches[j].byte_offset + 4 <= n

\* The window 8D 86 64 40 CF 01 decoded with size 4: the embedded address
\* straddles the end of the instruction and is not matched.
C1_Witness ==
  \E k \in Described :
    /\ outcomes[k].window = <<141, 134, 100, 64, 207, 1>>
    /\ outcomes[k].insn.size = 4
    /\ outcomes[k].matches = <<>>
    /\ outcomes[k].desc.bytes
         = <<"8","D"," ","8","6"," ","6","4"," ","4","0">>
    /\ find_memory_references_in_bytes(outcomes[k].window, args.memory_base,
                                       args.max_offset_range) # <<>>

\* The text after the sign and the "0x" prefix of a rendered offset.
OffsetDigits(str) ==
  IF str[1] = "-" THEN SubSeq(str, 4, Len(str)) ELSE SubSeq(str, 3, Len(str))

\* C4: the 'offset' field of every Described candidate is the signed offset
\* (embedded value - memory_base) of the match with the smallest byte offset,
\* or "0x0" without a match, rendered as upper-case hex of the magnitude with
\* prefix "0x" (non-negative) or "-0x" (negative); offset 0 renders "0x0",
\* offset -1 renders "-0x1", and later matches have no influence.
C4_PrimaryOffset ==
  \A k \in Described :
    LET o   == outcomes[k]
        str == o.desc.offset
    IN  IF o.matches = <<>> THEN str = <<"0", "x", "0">>
        ELSE
          \E j \in 1..Len(o.matches) :
            LET m == o.matches[j]
                d == m.memory_offset
                digits == OffsetDigits(str)
            IN  /\ \A q \in 1..Len(o.matches) :
                     m.byte_offset <= o.matches[q].byte_offset
                /\ LittleEndian(args.memory_base + d)
                     = SubSeq(o.window, m.byte_offset + 1, m.byte_offset + 4)
                /\ IF d >= 0 THEN SubSeq(str, 1, 2) = <<"0", "x">>
                   ELSE SubSeq(str, 1, 3) = <<"-", "0", "x">>
                /\ Len(digits) >= 1
                /\ \A q \in 1..Len(digits) : digits[q] \in UpperHex
                /\ (Len(digits) > 1 => digits[1] # "0")
                /\ ParseHex(digits) = (IF d >= 0 THEN d ELSE 0 - d)
                /\ (d = 0 => str = <<"0", "x", "0">>)
                /\ (d = -1 => str = <<"-", "0", "x", "1">>)

\* 64 40 CF 01 CF 01: matches at 0 (offset 0) and at 2 (negative offset);
\* the field shows the first.
C4_Witness ==
  \E k \in Described :
    /\ Len(outcomes[k].matches) = 2
    /\ outcomes[k].matches[1].memory_offset = 0
    /\ outcomes[k].matches[2].memory_offset < 0
    /\ outcomes[k].desc.offset = <<"0", "x", "0">>

\* C5: a candidate whose file offset is negative or whose window would end
\* past the image never reaches the decoder: it only increments the
\* out-of-range count, adds nothing to the mapping and is not counted as a
\* decode failure; the decoder is only called on windows of exactly
\* bytes_to_read bytes lying wholly inside the image.
C5_RangeCheckedBeforeDecode ==
  LET n == args.bytes_to_read
      outside(a) == a - args.image_base < 0
                    \/ a - args.image_base + n > Len(binary_data)
      inside == {k \in 1..Len(outcomes) : ~outside(outcomes[k].addr)}
  IN  /\ \A k \in 1..Len(outcomes) :
           outside(outcomes[k].addr) <=> outcomes[k].kind = "OutOfRange"
      /\ out_of_range_addresses = Cardinality(OfKind("OutOfRange"))
      /\ failed_disassemblies + successful_disassemblies = Cardinality(inside)
      /\ Len(decoder_calls) = Cardinality(inside)
      /\ Cardinality(DOMAIN instructions) <= Cardinality(inside)
      /\ \A c \in 1..Len(decoder_calls) :
           LET call == decoder_calls[c]
               off  == call.addr - args.image_base
           IN  /\ Len(call.code) = n
               /\ off >= 0
               /\ off + n <= Len(binary_data)
               /\ \A b \in 1..n : call.code[b] = binary_data[off + b]

\* A run over an address below the image and one too close to its end.
C5_Witness ==
  /\ pc = "done"
  /\ Len(outcomes) = 2
  /\ outcomes[1].addr < args.image_base
  /\ outcomes[2].addr - args.image_base + args.bytes_to_read > Len(binary_data)
  /\ outcomes[2].addr >= args.image_base
  /\ out_of_range_addresses = 2
  /\ failed_disassemblies = 0
  /\ decoder_calls = <<>>
  /\ DOMAIN instructions = {}

\* C6: a failing address never aborts the batch: whatever the per-address
\* outcomes, the loop ends with every candidate processed exactly once in
\* input order, and the statistics and the result are produced.
C6_BatchAlwaysCompletes ==
  <>(/\ pc = "done"
     /\ result.built
     /\ rate # <<>>
     /\ Len(outcomes) = Len(addresses)
     /\ \A k \in 1..Len(addresses) : outcomes[k].addr = addresses[k])

\* A finished run in which the decoder raised and then returned nothing.
C6_Witness ==
  /\ pc = "done"
  /\ result.built
  /\ Len(outcomes) = 2
  /\ outcomes[1].kind = "DecodeError"
  /\ outcomes[2].kind = "DecodeFailed"

\* The count main() keeps for each of the four outcomes: lines 316, 279,
\* 289 and 320.
DescribedCount == successful_disassemblies
OutOfRangeCount == out_of_range_addresses
DecodeFailedCount == failed_disassemblies
DecodeErrorCount == failed_disassemblies

Outcomes == {"Described", "OutOfRange", "DecodeFailed", "DecodeError"}

\* C7 as stated: at the end of a run each of the four counts equals the
\* number of candidates that ended in that outcome, and the four sum to the
\* number of candidates.
C7_FourCounts ==
  pc = "done" =>
    /\ \A k \in 1..Len(outcomes) : outcomes[k].kind \in Outcomes
    /\ DescribedCount = Cardinality(OfKind("Described"))
    /\ OutOfRangeCount = Cardinality(OfKind("OutOfRange"))
    /\ DecodeFailedCount = Cardinality(OfKind("DecodeFailed"))
    /\ DecodeErrorCount = Cardinality(OfKind("DecodeError"))
    /\ DescribedCount + OutOfRangeCount + DecodeFailedCount + DecodeErrorCount
         = Len(addresses)

\* C7 amended: every candidate ends in exactly one of the four outcomes; the
\* driver keeps three counts, DecodeFailed and DecodeError sharing
\* failed_disassemblies; after every candidate, and at the end of the run,
\* the Described and OutOfRange counts equal the number of candidates with
\* that outcome, the failure count equals DecodeFailed plus DecodeError, and
\* the three sum to the number of candidates processed.
C7_ThreeCounts ==
  /\ \A k \in 1..Len(outcomes) : outcomes[k].kind \in Outcomes
  /\ Len(outcomes) = i
  /\ successful_disassemblies = Cardinality(OfKind("Described"))
  /\ out_of_range_addresses = Cardinality(OfKind("OutOfRange"))
  /\ failed_disassemblies
       = Cardinality(OfKind("DecodeFailed")) + Cardinality(OfKind("DecodeError"))
  /\ successful_disassemblies + out_of_range_addresses + failed_disassemblies = i
  /\ pc = "done" => i = Len(addresses)

\* A finished run with one DecodeFailed and one DecodeError candidate.
C7_Witness ==
  /\ pc = "done"
  /\ Cardinality(OfKind("DecodeFailed")) = 1
  /\ Cardinality(OfKind("DecodeError")) = 1
  /\ failed_disassemblies = 2

\* The last Described position whose decoder-reported address is a.
LastDescribedAt(a) ==
  CHOOSE k \in Described :
    /\ outcomes[k].insn.address = a
    /\ \A q \in Described : outcomes[q].insn.address = a => q <= k

\* C8: every descriptor is stored under "0x" + the decoder-reported address
\* in 8-digit upper-case hex (not the candidate address); when two candidates
\* decode to the same key the mapping holds one entry for it, the descriptor
\* built for the later candidate, and so does the result at the end.
C8_KeyedByDecodedAddress ==
  /\ \A k \in Described :
       \E key \in DOMAIN instructions :
         /\ Len(key) = 10
         /\ key[1] = "0" /\ key[2] = "x"
         /\ \A q \in 3..10 : key[q] \in UpperHex
         /\ ParseHex(SubSeq(key, 3, 10)) = outcomes[k].insn.address
         /\ instructions[key]
              = outcomes[LastDescribedAt(outcomes[k].insn.address)].desc
  /\ Cardinality(DOMAIN instructions)
       = Cardinality({outcomes[k].insn.address : k \in Described})
  /\ pc = "done" => result.instructions = instructions

\* Candidates 0x400001 and 0x400000 both reported at 0x400000 with different
\* descriptors: one entry, the later descriptor.
C8_Witness ==
  /\ pc = "done"
  /\ Len(outcomes) = 2
  /\ Described = {1, 2}
  /\ outcomes[1].addr # outcomes[2].addr
  /\ outcomes[1].insn.address = outcomes[2].insn.address
  /\ outcomes[1].insn.address # outcomes[1].addr
  /\ outcomes[1].desc # outcomes[2].desc
  /\ DOMAIN result.instructions = {<<"0","x","0","0","4","0","0","0","0","0">>}
  /\ result.instructions[<<"0","x","0","0","4","0","0","0","0","0">>]
       = outcomes[2].desc

\* C9: on an empty candidate list the decoder is never called, the run ends
\* with total_instructions = 0, an empty mapping and all counts 0, and the
\* success rate is reported as "N/A" instead of being computed (no division
\* by zero stops the run).
C9_EmptyList ==
  addresses = <<>> =>
    /\ pc \in {"loop", "done"}
    /\ decoder_calls = <<>>
    /\ successful_disassemblies = 0
    /\ out_of_range_addresses = 0
    /\ failed_disassemblies = 0
    /\ pc = "done" =>
         /\ result.built
         /\ result.total_instructions = 0
         /\ DOMAIN result.instructions = {}
         /\ rate = <<"N", "/", "A">>

\* The run on the empty list has finished.
C9_Witness ==
  /\ addresses = <<>>
  /\ pc = "done"
  /\ result.built
  /\ rate = <<"N", "/", "A">>

\* C10: after every candidate, and at the end of the run, the number of
\* Described candidates (total_instructions) is at least the number of
\* entries of the mapping, with equality exactly when the Described
\* candidates decoded to pairwise distinct addresses; with a repeated key
\* total_instructions exceeds the number of descriptors.
C10_TotalVersusEntries ==
  LET distinct == \A j, k \in Described :
                    j # k => outcomes[j].insn.address # outcomes[k].insn.address
  IN  /\ successful_disassemblies = Cardinality(Described)
      /\ successful_disassemblies >= Cardinality(DOMAIN instructions)
      /\ (successful_disassemblies = Cardinality(DOMAIN instructions)) <=> distinct
      /\ pc = "done" =>
           /\ result.total_instructions = Cardinality(Described)
           /\ result.total_instructions >= Cardinality(DOMAIN result.instructions)
           /\ (result.total_instructions = Cardinality(DOMAIN result.instructions))
                <=> distinct

\* Two Described candidates, one entry.
C10_Witness ==
  /\ pc = "done"
  /\ result.total_instructions = 2
  /\ Cardinality(DOMAIN result.instructions) = 1

====
